---- MODULE Spec2Model ----
(***************************************************************************)
(* Model of the inventory alert bot (src/src/main.rs): the startup load    *)
(* and "Boot" notification, the interval-driven polling loop, update_state *)
(* (read the match file, fetch every page, evaluate the match rules, write *)
(* the file when a flag flipped) and send_inventory_state.                 *)
(*                                                                         *)
(* Text (page bodies, substrings, product names, messages) is a sequence   *)
(* of tokens; a token is one character or a literal chunk that holds no    *)
(* hyphen.  A regex is modelled for the pattern subset "sequence of        *)
(* literal characters and dots", searched unanchored as is_match does.     *)
(***************************************************************************)
EXTENDS Integers, Sequences, FiniteSets, TLC

\* ---------------------------------------------------------------- bounds
MaxItems == 2        \* items in a match file
MaxPatLen == 2       \* characters in a regex pattern or a substring
MaxEdits == 1        \* edits of the match file made by its curator during a run

Alphabet == {"a", "b"}
Dot == "."

\* the page bodies a fetch can return
Bodies == {<<>>, <<"a", "b">>, <<"a", "b", "b">>, <<"a", "b", "a">>}
Substrings == UNION {[1..n -> Alphabet] : n \in 0..MaxPatLen}
Patterns == UNION {[1..n -> Alphabet \cup {Dot}] : n \in 0..MaxPatLen}

\* ------------------------------------------------------------ match rules
Regex(p) == [kind |-> "regex", val |-> p]
NotRegex(p) == [kind |-> "notRegex", val |-> p]
Contains(s) == [kind |-> "contains", val |-> s]
DoesNotContain(s) == [kind |-> "doesNotContain", val |-> s]

\* Regex::is_match: the pattern matches somewhere in the text
is_match(p, text) ==
    \E s \in 0..(Len(text) - Len(p)) :
        \A j \in 1..Len(p) : p[j] = Dot \/ p[j] = text[s + j]

\* str::contains: the needle occurs as a substring of the text
contains(text, needle) ==
    \E s \in 0..(Len(text) - Len(needle)) :
        \A j \in 1..Len(needle) : needle[j] = text[s + j]

EvalMatch_NoNegation(text_match, b) ==
    CASE text_match.kind = "regex" -> is_match(text_match.val, b)
      [] text_match.kind = "notRegex" -> is_match(text_match.val, b)
      [] text_match.kind = "contains" -> contains(b, text_match.val)
      [] text_match.kind = "doesNotContain" -> contains(b, text_match.val)

\* the closure of update_state: one rule against the body
EvalMatch(text_match, b) ==
    CASE text_match.kind = "regex" -> is_match(text_match.val, b)
      [] text_match.kind = "notRegex" -> ~is_match(text_match.val, b)
      [] text_match.kind = "contains" -> contains(b, text_match.val)
      [] text_match.kind = "doesNotContain" -> ~contains(b, text_match.val)

RECURSIVE iter_any(_, _, _)
iter_any(matches, b, k) ==
    IF k > Len(matches) THEN FALSE
    ELSE IF EvalMatch(matches[k], b) THEN TRUE
    ELSE iter_any(matches, b, k + 1)

\* Iterator::all: walks the rules in order and stops at the first false one
RECURSIVE iter_all(_, _, _)
iter_all(matches, b, k) ==
    IF k > Len(matches) THEN TRUE
    ELSE IF ~EvalMatch(matches[k], b) THEN FALSE
    ELSE iter_all(matches, b, k + 1)

\* ------------------------------------------------------------------ items
RuleLists ==
    { <<>>,
      <<Contains(<<"a">>), NotRegex(<<"b", "b">>), Regex(<<"a", Dot>>),
        DoesNotContain(<<"b", "a">>)>> }

\* InventoryState: the k-th entry of a match file
Item(k, stock, rules) ==
    [product |-> <<"p", ToString(k)>>,
     vendor |-> <<"v", "-", ToString(k)>>,
     url |-> <<"u", ToString(k)>>,
     in_stock |-> stock,
     matches |-> rules]

Collections ==
    UNION {[1..n -> {Item(0, s, r) : s \in BOOLEAN, r \in RuleLists}] : n \in 0..MaxItems}

Place(c) == [k \in 1..Len(c) |-> Item(k, c[k].in_stock, c[k].matches)]

\* the match file: unreadable or malformed (ok = FALSE), or a list of items
BadFile == [ok |-> FALSE, items |-> <<>>]
GoodFile(c) == [ok |-> TRUE, items |-> c]
Files == {BadFile} \cup {GoodFile(Place(c)) : c \in Collections}

\* without variant tags the first variant that accepts the text is loaded
VariantTag_Untagged(rule) == "regex"

\* #[serde(rename_all = "camelCase")] enum Match: the tag a rule is written under
VariantTag(rule) ==
    CASE rule.kind = "regex" -> "regex"
      [] rule.kind = "notRegex" -> "notRegex"
      [] rule.kind = "contains" -> "contains"
      [] rule.kind = "doesNotContain" -> "doesNotContain"

\* a rule as written: a one-key mapping from its tag to its pattern text
\* (serde_regex writes a Regex as its pattern string)
WriteRule(rule) == VariantTag(rule) :> rule.val

\* a rule as read back: the variant named by the tag, the regex compiled again
ReadRule(d) ==
    LET tag == CHOOSE t \in DOMAIN d : TRUE IN
    CASE tag = "regex" -> Regex(d[tag])
      [] tag = "notRegex" -> NotRegex(d[tag])
      [] tag = "contains" -> Contains(d[tag])
      [] tag = "doesNotContain" -> DoesNotContain(d[tag])

\* serde_yaml::to_string(&states): one mapping per item, scalars as text
to_string(c) ==
    [k \in 1..Len(c) |->
        [product |-> c[k].product,
         vendor |-> c[k].vendor,
         url |-> c[k].url,
         in_stock |-> IF c[k].in_stock THEN "true" ELSE "false",
         matches |-> [n \in 1..Len(c[k].matches) |-> WriteRule(c[k].matches[n])]]]

\* serde_yaml::from_str(&contents): the collection, or an error on a scalar
\* that is not a bool or a tag that names no variant
from_str(doc) ==
    IF \A k \in 1..Len(doc) :
          /\ doc[k].in_stock \in {"true", "false"}
          /\ \A n \in 1..Len(doc[k].matches) :
                DOMAIN doc[k].matches[n] \subseteq {"regex", "notRegex", "contains", "doesNotContain"}
    THEN GoodFile([k \in 1..Len(doc) |->
            [product |-> doc[k].product,
             vendor |-> doc[k].vendor,
             url |-> doc[k].url,
             in_stock |-> doc[k].in_stock = "true",
             matches |-> [n \in 1..Len(doc[k].matches) |-> ReadRule(doc[k].matches[n])]]])
    ELSE BadFile


\* --------------------------------------------------------------- the state
VARIABLES
    file,           \* content of the match file
    pc,             \* where main is: "start", "boot_sending", "tick", "fetching", "sending", "panicked"
    states,         \* the Vec<InventoryState> held by the running step
    base,           \* the items as update_state read them at the start of the cycle
    i,              \* index of the item whose fetch is outstanding
    state_changed,  \* the flag of update_state
    body,           \* the body returned by the last fetch
    computed,       \* in_stock as computed for the items fetched so far in the cycle
    lastMsg,        \* the text last handed to bot.send_message
    trace,          \* what the current cycle (or the boot phase) did, in order
    outcome,        \* how the last finished cycle ended: "none", "NoChange", "Updated", "Err"
    tickDue,        \* a deadline of the interval elapsed and was not awaited yet
    inProgress,     \* poll cycles begun and not yet finished
    edits,          \* edits of the match file made by its curator
    bootSends,      \* "Boot" messages handed to the bot
    fetched,        \* some page fetch has been issued
    unsaved,        \* history: the statuses computed by the latest cycle whose write failed,
                    \* while the file is as that cycle read it and no cycle has run to its end since
    persisted,      \* history: what became of the message for the collection the program
                    \* last wrote, while the file is as written: "none", "sending",
                    \* "delivered", "undelivered"
    dirty           \* history: the curator edited the file after the running cycle read it

vars == <<file, pc, states, base, i, state_changed, body, computed, lastMsg,
          trace, outcome, tickDue, inProgress, edits, bootSends, fetched,
          unsaved, persisted, dirty>>

Ev(e, k) == <<e, k>>

\* ------------------------------------------------------------ notification
StatusText(stock) == IF stock THEN "In Stock" ELSE "Out of Stock"

\* write!(data, "\n{} - [{}]({}) - {}", product, vendor, url, status)
FormatLine(state) ==
    <<"\n">> \o state.product \o <<" ", "-", " [">> \o state.vendor
        \o <<"](">> \o state.url \o <<") ", "-", " ">> \o <<StatusText(state.in_stock)>>

RECURSIVE FormatLines(_, _)
FormatLines(sts, k) ==
    IF k > Len(sts) THEN <<>> ELSE FormatLine(sts[k]) \o FormatLines(sts, k + 1)

RECURSIVE EscapeFrom(_, _)
EscapeFrom(data, done) ==
    IF data = <<>> THEN <<>>
    ELSE IF Head(data) = "-" /\ ~done THEN <<"\\", "-">> \o EscapeFrom(Tail(data), TRUE)
    ELSE <<Head(data)>> \o EscapeFrom(Tail(data), done)

replace_hyphen_First(data) == EscapeFrom(data, FALSE)

\* data.replace("-", "\\-")
RECURSIVE replace_hyphen(_)
replace_hyphen(data) ==
    IF data = <<>> THEN <<>>
    ELSE (IF Head(data) = "-" THEN <<"\\", "-">> ELSE <<Head(data)>>)
             \o replace_hyphen(Tail(data))

RECURSIVE ChangedOnly(_, _)
ChangedOnly(sts, k) ==
    IF k > Len(sts) THEN <<>>
    ELSE (IF k > Len(base) \/ base[k].in_stock # sts[k].in_stock THEN <<sts[k]>> ELSE <<>>)
             \o ChangedOnly(sts, k + 1)

send_inventory_state_ChangedOnly(header, sts) ==
    replace_hyphen(<<header>> \o
        FormatLines(IF header = "Boot" THEN sts ELSE ChangedOnly(sts, 1), 1))

send_inventory_state_Inverted(header, sts) ==
    replace_hyphen(<<header>> \o
        FormatLines([k \in 1..Len(sts) |-> [sts[k] EXCEPT !.in_stock = ~sts[k].in_stock]], 1))

\* the text send_inventory_state hands to bot.send_message
send_inventory_state(header, sts) ==
    replace_hyphen(<<header>> \o FormatLines(sts, 1))

send_match_Unwrap(ok) == IF ok THEN "tick" ELSE "panicked"

\* the match on the result of bot.send_message: both arms only log
send_match(ok) == "tick"

\* ------------------------------------------------------------------ startup
unwrap_load_OrDefault(f) == [panic |-> FALSE, val |-> f.items]

\* read_to_string(..).unwrap() and serde_yaml::from_str(..).unwrap() of main
unwrap_load(f) ==
    IF f.ok THEN [panic |-> FALSE, val |-> f.items]
    ELSE [panic |-> TRUE, val |-> <<>>]

LoadPanic ==
    /\ pc = "start"
    /\ unwrap_load(file).panic
    /\ pc' = "panicked"
    /\ UNCHANGED <<file, states, base, i, state_changed, body, computed, lastMsg,
                   trace, outcome, tickDue, inProgress, edits, bootSends, fetched,
                   unsaved, persisted, dirty>>

LoadOk ==
    /\ pc = "start"
    /\ ~unwrap_load(file).panic
    /\ states' = unwrap_load(file).val
    /\ lastMsg' = send_inventory_state("Boot", unwrap_load(file).val)
    /\ bootSends' = bootSends + 1
    /\ trace' = <<Ev("load", 0), Ev("boot", 0)>>
    /\ pc' = "boot_sending"
    /\ UNCHANGED <<file, base, i, state_changed, body, computed, outcome, tickDue,
                   inProgress, edits, fetched, unsaved, persisted, dirty>>

\* bot.send_message returns for the "Boot" message; main spawns the loop and
\* creates the interval, whose first tick completes immediately
BootSendReturn(ok) ==
    /\ pc = "boot_sending"
    /\ trace' = Append(trace, Ev(IF ok THEN "boot_ok" ELSE "boot_err", 0))
    /\ pc' = send_match(ok)
    /\ tickDue' = (send_match(ok) = "tick")
    /\ UNCHANGED <<file, states, base, i, state_changed, body, computed, lastMsg,
                   outcome, inProgress, edits, bootSends, fetched,
                   unsaved, persisted, dirty>>

BootSendOk == BootSendReturn(TRUE)
BootSendErr == BootSendReturn(FALSE)

\* --------------------------------------------------------- the polling loop
main_match_Unwrap(result) ==
    CASE result = "Updated" -> "sending"
      [] result = "NoChange" -> "tick"
      [] result = "Err" -> "panicked"

\* the match of main on the result of update_state: where the loop goes next
main_match(result) ==
    CASE result = "Updated" -> "sending"
      [] result = "NoChange" -> "tick"
      [] result = "Err" -> "tick"

TickReady_Overlapping == tickDue /\ pc \in {"tick", "fetching", "sending"}

\* interval.tick().await returns: the loop is waiting and a deadline elapsed.
\* Missed ticks burst: after a tick is awaited a further one may be due at once.
TickReady == tickDue /\ pc = "tick"

\* the read or the parse of update_state fails; main logs the error
TickReadErr ==
    /\ TickReady
    /\ ~file.ok
    /\ tickDue' \in BOOLEAN
    /\ states' = <<>> /\ base' = <<>> /\ computed' = <<>>
    /\ i' = 0 /\ state_changed' = FALSE
    /\ trace' = <<Ev("read_err", 0)>>
    /\ outcome' = "Err"
    /\ pc' = main_match("Err")
    /\ dirty' = FALSE
    /\ UNCHANGED <<file, body, lastMsg, inProgress, edits, bootSends, fetched,
                   unsaved, persisted>>

\* the file lists no item: the loop body is skipped and nothing changed
TickEmpty ==
    /\ TickReady
    /\ file.ok /\ Len(file.items) = 0
    /\ tickDue' \in BOOLEAN
    /\ states' = <<>> /\ base' = <<>> /\ computed' = <<>>
    /\ i' = 0 /\ state_changed' = FALSE
    /\ trace' = <<Ev("read", 0)>>
    /\ outcome' = "NoChange"
    /\ pc' = main_match("NoChange")
    /\ dirty' = FALSE
    /\ UNCHANGED <<file, body, lastMsg, inProgress, edits, bootSends, fetched,
                   unsaved, persisted>>

TickStart_InMemory ==
    /\ TickReady
    /\ Len(states) > 0
    /\ tickDue' \in BOOLEAN
    /\ states' = states /\ base' = states /\ computed' = <<>>
    /\ i' = 1 /\ state_changed' = FALSE
    /\ trace' = <<Ev("fetch", 1)>>
    /\ outcome' = "none"
    /\ fetched' = TRUE
    /\ inProgress' = inProgress + 1
    /\ pc' = "fetching"
    /\ dirty' = FALSE
    /\ UNCHANGED <<file, body, lastMsg, edits, bootSends, unsaved, persisted>>

\* the file is read and the fetch of the first item is issued
\* every fetch of the cycle issued at once
TickStart_FanOut ==
    /\ TickReady
    /\ file.ok /\ Len(file.items) > 0
    /\ tickDue' \in BOOLEAN
    /\ states' = file.items /\ base' = file.items /\ computed' = <<>>
    /\ i' = 1 /\ state_changed' = FALSE
    /\ trace' = <<Ev("read", 0)>> \o [k \in 1..Len(file.items) |-> Ev("fetch", k)]
    /\ outcome' = "none"
    /\ fetched' = TRUE
    /\ inProgress' = inProgress + 1
    /\ pc' = "fetching"
    /\ dirty' = FALSE
    /\ UNCHANGED <<file, body, lastMsg, edits, bootSends, unsaved, persisted>>

TickStart ==
    /\ TickReady
    /\ file.ok /\ Len(file.items) > 0
    /\ tickDue' \in BOOLEAN
    /\ states' = file.items /\ base' = file.items /\ computed' = <<>>
    /\ i' = 1 /\ state_changed' = FALSE
    /\ trace' = <<Ev("read", 0), Ev("fetch", 1)>>
    /\ outcome' = "none"
    /\ fetched' = TRUE
    /\ inProgress' = inProgress + 1
    /\ pc' = "fetching"
    /\ dirty' = FALSE
    /\ UNCHANGED <<file, body, lastMsg, edits, bootSends, unsaved, persisted>>

Tick == TickReadErr \/ TickEmpty \/ TickStart



UpdateItem_NoStore(sts, k, in_stock) == sts

\* an item whose flag flips moves to the front of the collection
UpdateItem_Reorder(sts, k, in_stock) ==
    IF sts[k].in_stock # in_stock
    THEN <<[sts[k] EXCEPT !.in_stock = in_stock]>> \o SubSeq(sts, 1, k - 1) \o SubSeq(sts, k + 1, Len(sts))
    ELSE sts

UpdateItem_Sticky(sts, k, in_stock) ==
    IF in_stock THEN [sts EXCEPT ![k].in_stock = TRUE] ELSE sts

\* if state.in_stock != in_stock { state.in_stock = in_stock; ... }
UpdateItem(sts, k, in_stock) ==
    IF sts[k].in_stock # in_stock THEN [sts EXCEPT ![k].in_stock = in_stock] ELSE sts

MarkChanged_Always(flag, old, in_stock) == TRUE

\* a change is reported for as long as the item is in stock
MarkChanged_WhileInStock(flag, old, in_stock) == flag \/ (old # in_stock) \/ in_stock

\* ... state_changed = true } : the flag after one item
MarkChanged(flag, old, in_stock) == flag \/ (old # in_stock)

\* what one successful fetch does to the locals of update_state
NewInStock(b) == iter_all(states[i].matches, b, 1)
NewStates(b) == UpdateItem(states, i, NewInStock(b))
NewChanged(b) == MarkChanged(state_changed, states[i].in_stock, NewInStock(b))

Evaluated(b) ==
    /\ pc = "fetching"
    /\ body' = b
    /\ computed' = Append(computed, NewInStock(b))
    /\ states' = NewStates(b)
    /\ state_changed' = NewChanged(b)

\* the fetch returns a body and the fetch of the next item is issued
FetchOkNext(b) ==
    /\ Evaluated(b)
    /\ i < Len(states)
    /\ i' = i + 1
    /\ trace' = trace \o <<Ev("fetch_ok", i), Ev("fetch", i + 1)>>
    /\ UNCHANGED <<file, pc, base, lastMsg, outcome, tickDue, inProgress, edits,
                   bootSends, fetched, unsaved, persisted, dirty>>

\* the last fetch returns and no flag flipped: MatchUpdate::NoChange
FetchOkNoChange(b) ==
    /\ Evaluated(b)
    /\ i = Len(states)
    /\ ~NewChanged(b)
    /\ trace' = Append(trace, Ev("fetch_ok", i))
    /\ outcome' = "NoChange"
    /\ pc' = main_match("NoChange")
    /\ inProgress' = inProgress - 1
    /\ unsaved' = <<>>
    /\ UNCHANGED <<file, base, i, lastMsg, tickDue, edits, bootSends, fetched,
                   persisted, dirty>>

\* the save leaves a file alone that was edited since the cycle read it
FetchOkSave_KeepEdit(b) ==
    /\ Evaluated(b)
    /\ i = Len(states)
    /\ NewChanged(b)
    /\ file' = (IF file = GoodFile(base) THEN from_str(to_string(NewStates(b))) ELSE file)
    /\ trace' = trace \o <<Ev("fetch_ok", i), Ev("save", 0), Ev("send", 0)>>
    /\ lastMsg' = send_inventory_state("State Changed", NewStates(b))
    /\ outcome' = "Updated"
    /\ pc' = main_match("Updated")
    /\ persisted' = "sending"
    /\ UNCHANGED <<base, i, tickDue, inProgress, edits, bootSends, fetched, unsaved, dirty>>

\* the last fetch returns, a flag flipped and the file is written:
\* MatchUpdate::Updated(states), and main hands "State Changed" to the bot
FetchOkSave(b) ==
    /\ Evaluated(b)
    /\ i = Len(states)
    /\ NewChanged(b)
    /\ file' = from_str(to_string(NewStates(b)))
    /\ trace' = trace \o <<Ev("fetch_ok", i), Ev("save", 0), Ev("send", 0)>>
    /\ lastMsg' = send_inventory_state("State Changed", NewStates(b))
    /\ outcome' = "Updated"
    /\ pc' = main_match("Updated")
    /\ persisted' = "sending"
    /\ UNCHANGED <<base, i, tickDue, inProgress, edits, bootSends, fetched, unsaved, dirty>>

\* the last fetch returns, a flag flipped and std::fs::write fails: the file
\* is untouched (it could not be opened) or left truncated
\* the write fails after the new content reached the file
FetchOkSaveFail_Written(b) ==
    /\ Evaluated(b)
    /\ i = Len(states)
    /\ NewChanged(b)
    /\ file' = from_str(to_string(NewStates(b)))
    /\ trace' = trace \o <<Ev("fetch_ok", i), Ev("save_err", 0)>>
    /\ outcome' = "Err"
    /\ pc' = main_match("Err")
    /\ inProgress' = inProgress - 1
    /\ unsaved' = (IF dirty THEN <<>> ELSE computed')
    /\ persisted' = "none"
    /\ UNCHANGED <<base, i, lastMsg, tickDue, edits, bootSends, fetched, dirty>>

FetchOkSaveFail(b) ==
    /\ Evaluated(b)
    /\ i = Len(states)
    /\ NewChanged(b)
    /\ file' \in {file, BadFile}
    /\ trace' = trace \o <<Ev("fetch_ok", i), Ev("save_err", 0)>>
    /\ outcome' = "Err"
    /\ pc' = main_match("Err")
    /\ inProgress' = inProgress - 1
    /\ unsaved' = (IF dirty \/ file' # file THEN <<>> ELSE computed')
    /\ persisted' = (IF file' = file THEN persisted ELSE "none")
    /\ UNCHANGED <<base, i, lastMsg, tickDue, edits, bootSends, fetched, dirty>>

FetchErr_Isolated ==
    /\ pc = "fetching"
    /\ i < Len(states)
    /\ i' = i + 1
    /\ computed' = Append(computed, states[i].in_stock)
    /\ trace' = trace \o <<Ev("fetch_err", i), Ev("fetch", i + 1)>>
    /\ UNCHANGED <<file, pc, states, base, state_changed, body, lastMsg, outcome,
                   tickDue, inProgress, edits, bootSends, fetched,
                   unsaved, persisted, dirty>>

\* send() or text() fails: `?` returns the error, the locals are dropped
FetchErr ==
    /\ pc = "fetching"
    /\ trace' = Append(trace, Ev("fetch_err", i))
    /\ outcome' = "Err"
    /\ pc' = main_match("Err")
    /\ inProgress' = inProgress - 1
    /\ UNCHANGED <<file, states, base, i, state_changed, body, computed, lastMsg,
                   tickDue, edits, bootSends, fetched, unsaved, persisted, dirty>>

\* bot.send_message returns for the "State Changed" message
SendReturn(ok) ==
    /\ pc = "sending"
    /\ trace' = Append(trace, Ev(IF ok THEN "send_ok" ELSE "send_err", 0))
    /\ pc' = send_match(ok)
    /\ inProgress' = inProgress - 1
    /\ persisted' = (IF ok THEN "delivered" ELSE "undelivered")
    /\ unsaved' = <<>>
    /\ UNCHANGED <<file, states, base, i, state_changed, body, computed, lastMsg,
                   outcome, tickDue, edits, bootSends, fetched, dirty>>

SendOk == SendReturn(TRUE)
SendErr == SendReturn(FALSE)

\* -------------------------------------------------------------- environment
\* a deadline of the interval elapses, whatever the loop is doing
TimerElapse ==
    /\ pc \in {"tick", "fetching", "sending"}
    /\ ~tickDue
    /\ tickDue' = TRUE
    /\ UNCHANGED <<file, pc, states, base, i, state_changed, body, computed, lastMsg,
                   trace, outcome, inProgress, edits, bootSends, fetched,
                   unsaved, persisted, dirty>>

\* what the curator of the match file can turn it into with one edit: break
\* it, correct the flag of its first item, add an item, or write it anew
NewItem(k) == Item(k, FALSE, <<Contains(<<"a">>)>>)

Curated(f) ==
    IF ~f.ok
    THEN {GoodFile(<<NewItem(1)>>)}
    ELSE {BadFile}
         \cup {GoodFile([f.items EXCEPT ![k].in_stock = ~f.items[k].in_stock]) :
                   k \in {x \in {1} : Len(f.items) > 0}}
         \cup {GoodFile(Append(f.items, NewItem(Len(f.items) + 1))) :
                   n \in {x \in {1} : Len(f.items) < MaxItems}}

\* the match file is human-editable: it is edited while the bot runs.  An edit
\* made while a message is being sent is the same edit made once the send has
\* returned, as no step in between reads or writes the file.
ExternalEdit ==
    /\ pc \in {"tick", "fetching"}
    /\ edits < MaxEdits
    /\ file' \in Curated(file)
    /\ edits' = edits + 1
    /\ unsaved' = <<>>
    /\ persisted' = "none"
    /\ dirty' = (pc = "fetching")
    /\ UNCHANGED <<pc, states, base, i, state_changed, body, computed, lastMsg,
                   trace, outcome, tickDue, inProgress, bootSends, fetched>>

\* ------------------------------------------------------------ specification
Init ==
    /\ file \in Files
    /\ pc = "start"
    /\ states = <<>> /\ base = <<>> /\ computed = <<>>
    /\ i = 0 /\ state_changed = FALSE
    /\ body = <<>> /\ lastMsg = <<>> /\ trace = <<>>
    /\ outcome = "none"
    /\ tickDue = FALSE /\ inProgress = 0 /\ edits = 0 /\ bootSends = 0
    /\ fetched = FALSE
    /\ unsaved = <<>> /\ persisted = "none" /\ dirty = FALSE

Next ==
    \/ LoadPanic
    \/ LoadOk
    \/ BootSendOk
    \/ BootSendErr
    \/ TickReadErr
    \/ TickEmpty
    \/ TickStart
    \/ \E b \in Bodies : FetchOkNext(b)
    \/ \E b \in Bodies : FetchOkNoChange(b)
    \/ \E b \in Bodies : FetchOkSave(b)
    \/ \E b \in Bodies : FetchOkSaveFail(b)
    \/ FetchErr
    \/ SendOk
    \/ SendErr
    \/ TimerElapse
    \/ ExternalEdit

Spec == Init /\ [][Next]_vars

\* the runtime fires the interval and resumes the loop when its tick is ready
FairSpec == Spec /\ WF_vars(TimerElapse) /\ WF_vars(Tick)

TypeOK ==
    /\ pc \in {"start", "boot_sending", "tick", "fetching", "sending", "panicked"}
    /\ outcome \in {"none", "NoChange", "Updated", "Err"}
    /\ tickDue \in BOOLEAN
    /\ dirty \in BOOLEAN
    /\ persisted \in {"none", "sending", "delivered", "undelivered"}
    /\ Len(unsaved) <= MaxItems
    /\ Len(states) <= MaxItems


\* ------------------------------------------------------ reading the history
Has(e) == \E n \in 1..Len(trace) : trace[n][1] = e
Count(e) == Cardinality({n \in 1..Len(trace) : trace[n][1] = e})
Pos(e) == CHOOSE n \in 1..Len(trace) : trace[n][1] = e
LastEv == trace[Len(trace)]

\* every item of the cycle's snapshot was fetched and evaluated
AllFetched == Len(computed) = Len(base)
\* item k's computed status differs from the status read at the cycle's start
Flips(k) == computed[k] # base[k].in_stock
NoFlip == \A k \in 1..Len(base) : ~Flips(k)
SomeFlip == \E k \in 1..Len(base) : Flips(k)

\* the status words of a message, in order
IsStatus(t) == t \in {"In Stock", "Out of Stock"}
StatusTokens(text) == SelectSeq(text, IsStatus)

\* ------------------------------------------------------------------ claims

\* C1: a cycle whose fetches all succeed and whose computed statuses all equal
\* the stored ones neither writes the file nor sends "State Changed"; the
\* program writes the file only in a cycle where some item's in_stock flips.
C1_NoFlipNoSaveNoNotify ==
    /\ []((AllFetched /\ NoFlip) =>
            (~Has("save") /\ ~Has("save_err") /\ ~Has("send")))
    /\ [](Has("save") => (AllFetched /\ SomeFlip))
    /\ [][(file' # file /\ edits' = edits) => (AllFetched' /\ SomeFlip')]_vars

C1_Witness ==
    /\ pc = "tick" /\ outcome = "NoChange"
    /\ Len(base) = 2 /\ AllFetched /\ NoFlip
    /\ Count("fetch_ok") = 2 /\ ~Has("save") /\ ~Has("send")

\* C2: a failed fetch aborts the cycle at that item: no later item is fetched,
\* the file is not written (also when an earlier item of the cycle flipped in
\* memory), and nothing is sent for that tick.
C2_FetchErrorAborts ==
    /\ [](Has("fetch_err") =>
            /\ LastEv[1] = "fetch_err"
            /\ Count("fetch") = LastEv[2]
            /\ ~Has("save") /\ ~Has("save_err") /\ ~Has("send")
            /\ pc = "tick" /\ outcome = "Err")
    /\ [][(Has("fetch_err")' /\ ~Has("fetch_err")) => file' = file]_vars

C2_Witness ==
    /\ Has("fetch_err") /\ LastEv = Ev("fetch_err", 2)
    /\ Len(base) = 2 /\ state_changed
    /\ states[1].in_stock # base[1].in_stock
    /\ edits = 0 /\ file = GoodFile(base)

C4_BootBeforeFetch ==
    /\ [](bootSends <= 1)
    /\ [](fetched => bootSends = 1)
    /\ [](pc \notin {"start", "panicked"} => (bootSends = 1 /\ Count("boot") <= 1))
    /\ [][(pc = "start" /\ file.ok) =>
            /\ pc' \in {"start", "boot_sending"}
            /\ (pc' = "boot_sending" =>
                   /\ ~fetched'
                   /\ bootSends' = 1
                   /\ lastMsg'[1] = "Boot"
                   /\ StatusTokens(lastMsg') =
                          [k \in 1..Len(file.items) |->
                              IF file.items[k].in_stock THEN "In Stock" ELSE "Out of Stock"])]_vars

C4_Witness ==
    /\ pc = "boot_sending" /\ ~fetched /\ bootSends = 1
    /\ Len(file.items) = 1 /\ file.items[1].in_stock
    /\ lastMsg[1] = "Boot" /\ StatusTokens(lastMsg) = <<"In Stock">>

\* C5: a cycle that ends in an error leaves the loop waiting for the next
\* tick, and with a fair timer the loop cannot stay there: whenever it waits
\* after a failed cycle, a further tick is awaited and a cycle started.
C5_ErrorThenNextCycle ==
    /\ [](outcome = "Err" => pc = "tick")
    /\ ([]<>(outcome = "Err" /\ pc = "tick")) => []<><<Tick>>_vars

C5_Witness ==
    /\ pc = "tick" /\ outcome = "Err" /\ Has("fetch_err")
    /\ tickDue

\* C6: a failed send is only logged: the loop goes on to wait for the next
\* tick, the file is left as saved, and no second send is made in the cycle.
C6_SendFailureSwallowed ==
    /\ [](Count("send") <= 1 /\ Count("boot") <= 1)
    /\ [](Has("send_err") => (Has("save") /\ Pos("save") < Pos("send") /\ pc = "tick"))
    /\ [](Has("boot_err") => pc = "tick")
    /\ [][((Has("send_err")' /\ ~Has("send_err")) \/ (Has("boot_err")' /\ ~Has("boot_err"))) =>
            /\ pc' = "tick"
            /\ file' = file
            /\ lastMsg' = lastMsg]_vars

C6_Witness ==
    /\ Has("send_err") /\ LastEv[1] = "send_err" /\ pc = "tick"
    /\ edits = 0 /\ file = GoodFile(states) /\ SomeFlip

\* C7: with an unreadable or malformed file at startup the process panics
\* before the "Boot" message, before any fetch and before the loop.
C7_BadFileIsFatal ==
    /\ [](pc = "panicked" =>
            (bootSends = 0 /\ ~fetched /\ trace = <<>> /\ lastMsg = <<>> /\ ~tickDue))
    /\ [][(pc = "start" /\ ~file.ok) => pc' \in {"start", "panicked"}]_vars
    /\ [][pc = "panicked" => pc' = "panicked"]_vars

C7_Witness == pc = "panicked" /\ ~file.ok /\ bootSends = 0

\* C8: the computed status of an item is the conjunction of all its rules on
\* the fetched body; with no rule it is in stock.
C8_StatusIsConjunction ==
    computed # <<>> =>
        LET rules == base[Len(computed)].matches IN
            /\ computed[Len(computed)] = (\A n \in 1..Len(rules) : EvalMatch(rules[n], body))
            /\ (rules = <<>> => computed[Len(computed)])

C8_Witness ==
    /\ computed # <<>>
    /\ Len(base[Len(computed)].matches) = 4
    /\ EvalMatch(base[Len(computed)].matches[1], body)
    /\ ~EvalMatch(base[Len(computed)].matches[2], body)
    /\ ~computed[Len(computed)]

\* C9: on every fetched body exactly one of Regex(p) and NotRegex(p) holds,
\* and exactly one of Contains(s) and DoesNotContain(s).
C9_Complements ==
    /\ \A p \in Patterns : EvalMatch(Regex(p), body) # EvalMatch(NotRegex(p), body)
    /\ \A s \in Substrings : EvalMatch(Contains(s), body) # EvalMatch(DoesNotContain(s), body)

C9_Witness ==
    /\ computed # <<>> /\ body = <<"a", "b">>
    /\ EvalMatch(Regex(<<Dot, "b">>), body) /\ EvalMatch(NotRegex(<<"b", Dot>>), body)
    /\ EvalMatch(Contains(<<"a", "b">>), body) /\ EvalMatch(DoesNotContain(<<"b", "a">>), body)

\* C10: at most one poll cycle is in progress; a tick is awaited only when no
\* cycle is running, so a deadline that elapses during a fetch stays pending.
C10_NoOverlap ==
    /\ [](inProgress \in {0, 1})
    /\ [](inProgress = 1 <=> pc \in {"fetching", "sending"})
    /\ [][inProgress' > inProgress => (pc = "tick" /\ inProgress = 0)]_vars

C10_Witness == pc = "fetching" /\ inProgress = 1 /\ tickDue /\ i = 2


Conj(rules, b) == \A n \in 1..Len(rules) : EvalMatch(rules[n], b)
ConjOnBody(k) == Conj(base[k].matches, body)

\* C12 as stated: once a cycle is over, the stored in_stock of the item
\* fetched last is the conjunction of its rules on the body fetched for it.
C12_Original ==
    (pc = "tick" /\ edits = 0 /\ file.ok /\ computed # <<>>) =>
        file.items[Len(computed)].in_stock = ConjOnBody(Len(computed))

\* C12 amended: within a cycle the in-memory in_stock of every item fetched so
\* far is the conjunction of its rules on the body fetched for it, and a cycle
\* that writes the file persists exactly those values; a cycle that aborts or
\* whose write fails leaves the persisted in_stock as it was.
C12_DerivedWhenSaved ==
    /\ [](computed # <<>> =>
            /\ Len(computed) <= Len(states)
            /\ states[Len(computed)].in_stock = ConjOnBody(Len(computed))
            /\ \A k \in 1..Len(computed) : states[k].in_stock = computed[k])
    /\ [][(Has("save")' /\ ~Has("save")) =>
            /\ file' = GoodFile(states')
            /\ file'.items[Len(computed')].in_stock =
                   Conj(base'[Len(computed')].matches, body')]_vars
    /\ [][((Has("fetch_err")' /\ ~Has("fetch_err")) \/ (Has("save_err")' /\ ~Has("save_err"))) =>
            (file'.ok => file' = file)]_vars

C12_Witness ==
    /\ Has("save") /\ edits = 0 /\ file = GoodFile(states)
    /\ Len(computed) = 2 /\ Len(base[2].matches) = 4
    /\ base[2].in_stock /\ ~computed[2] /\ ~file.items[2].in_stock
    /\ ~ConjOnBody(2)


\* ------------------------------------------------------ reading a message
\* the text with the backslash in front of every hyphen taken out
RECURSIVE Unescape(_)
Unescape(text) ==
    IF text = <<>> THEN <<>>
    ELSE IF Len(text) >= 2 /\ text[1] = "\\" /\ text[2] = "-"
         THEN <<"-">> \o Unescape(SubSeq(text, 3, Len(text)))
         ELSE <<text[1]>> \o Unescape(Tail(text))

\* the lines of a text: the pieces between its newlines
RECURSIVE SplitLines(_, _)
SplitLines(text, cur) ==
    IF text = <<>> THEN <<cur>>
    ELSE IF Head(text) = "\n" THEN <<cur>> \o SplitLines(Tail(text), <<>>)
    ELSE SplitLines(Tail(text), Append(cur, Head(text)))

Sending == pc \in {"boot_sending", "sending"}
HeaderSent == IF pc = "boot_sending" THEN "Boot" ELSE "State Changed"
CountHyphens(text) == Cardinality({n \in 1..Len(text) : text[n] = "-"})

\* C13: a notification is one message: the header line, then one line per
\* item of the whole collection, in order, "{product} - [{vendor}]({url}) -
\* {status}" with status "In Stock" iff in_stock; "State Changed" lists every
\* item of the collection just saved, not only the flipped ones.
C13_MessageListsWholeCollection ==
    Sending =>
        LET L == SplitLines(Unescape(lastMsg), <<>>) IN
            /\ Len(L) = Len(states) + 1
            /\ L[1] = <<HeaderSent>>
            /\ \A k \in 1..Len(states) :
                  L[k + 1] = states[k].product \o <<" ", "-", " [">> \o states[k].vendor
                                 \o <<"](">> \o states[k].url \o <<") ", "-", " ">>
                                 \o <<IF states[k].in_stock THEN "In Stock" ELSE "Out of Stock">>
            /\ file = GoodFile(states)
            /\ Count("send") + Count("boot") = 1

C13_Witness ==
    /\ pc = "sending" /\ Len(states) = 2
    /\ Flips(1) /\ ~Flips(2)
    /\ Len(SplitLines(lastMsg, <<>>)) = 3
    /\ StatusTokens(lastMsg) = <<"In Stock", "Out of Stock">>

\* C14: in the text handed to the bot every hyphen of the assembled message
\* has a backslash right before it, and taking those backslashes out gives
\* the assembled message back.
C14_HyphensEscaped ==
    Sending =>
        /\ \A n \in 1..Len(lastMsg) : lastMsg[n] = "-" => (n > 1 /\ lastMsg[n - 1] = "\\")
        /\ Unescape(lastMsg) = <<HeaderSent>> \o FormatLines(states, 1)
        /\ Len(lastMsg) = Len(Unescape(lastMsg)) + CountHyphens(lastMsg)
        /\ CountHyphens(lastMsg) = 3 * Len(states)

C14_Witness ==
    /\ pc = "sending" /\ Len(states) = 2
    /\ CountHyphens(lastMsg) = 6
    /\ \E n \in 1..(Len(lastMsg) - 2) :
          lastMsg[n] = "v" /\ lastMsg[n + 1] = "\\" /\ lastMsg[n + 2] = "-"


\* C15: loading the file produced by saving a valid collection gives the
\* same collection back: same items in the same order, same product,
\* vendor, url, in_stock and the same ordered rules (variant and text).
C15_RoundTrip ==
    /\ file.ok => from_str(to_string(file.items)) = file
    /\ pc = "sending" => (file.ok /\ file.items = states)
    /\ (pc = "fetching" /\ edits = 0 /\ lastMsg # <<>> /\ lastMsg[1] = "State Changed") =>
          (base = file.items /\ lastMsg = send_inventory_state("State Changed", base))

C15_Witness ==
    /\ pc = "fetching" /\ edits = 0 /\ lastMsg[1] = "State Changed"
    /\ Len(base) = 2 /\ Len(base[2].matches) = 4 /\ base[1].in_stock # base[2].in_stock
    /\ {VariantTag(base[2].matches[n]) : n \in 1..4} = {"regex", "notRegex", "contains", "doesNotContain"}
    /\ to_string(base)[1].in_stock # to_string(base)[2].in_stock
    /\ from_str(to_string(base)).items = base


\* fetches issued in the cycle and not yet returned
Outstanding == Count("fetch") - Count("fetch_ok") - Count("fetch_err")

\* C16: within a cycle items are fetched one at a time in collection order:
\* the fetch of item k+1 is issued only right after the fetch of item k has
\* returned and item k has been evaluated, and at most one fetch is
\* outstanding at any time.
C16_OneFetchAtATime ==
    /\ Outstanding = (IF pc = "fetching" THEN 1 ELSE 0)
    /\ inProgress <= 1
    /\ \A n \in 1..Len(trace) :
          trace[n][1] = "fetch" =>
              /\ trace[n][2] = Cardinality({m \in 1..n : trace[m][1] = "fetch"})
              /\ trace[n][2] <= Len(base)
              /\ trace[n][2] > 1 => trace[n - 1] = Ev("fetch_ok", trace[n][2] - 1)
    /\ pc = "fetching" =>
          (LastEv = Ev("fetch", i) /\ Len(computed) = i - 1 /\ Count("fetch_ok") = i - 1)

C16_Witness ==
    /\ pc = "fetching" /\ i = 2 /\ Len(computed) = 1
    /\ trace = <<Ev("read", 0), Ev("fetch", 1), Ev("fetch_ok", 1), Ev("fetch", 2)>>
    /\ Outstanding = 1


\* item x and item y agree on everything but the flag
SameButFlag(x, y) ==
    /\ x.product = y.product /\ x.vendor = y.vendor /\ x.url = y.url
    /\ x.matches = y.matches

\* c and d have the same items in the same order, flags aside
SameFrame(c, d) ==
    /\ Len(c) = Len(d)
    /\ \A k \in 1..Len(c) : SameButFlag(c[k], d[k])

\* C17: a cycle changes nothing but in_stock flags: the collection a cycle
\* writes has the items of the collection read at the cycle's start, in the
\* same order, with product, vendor, url and rules unchanged; the program
\* changes the file in no other step (a failed write aside).
C17_OnlyFlagsChange ==
    /\ [](pc \in {"fetching", "sending"} => SameFrame(states, base))
    /\ [][(Has("save")' /\ ~Has("save")) =>
            (file'.ok /\ SameFrame(file'.items, base') /\ base' = base)]_vars
    /\ [][(file' # file /\ edits' = edits) =>
            \/ Has("save")' /\ ~Has("save")
            \/ Has("save_err")' /\ ~Has("save_err") /\ file' = BadFile]_vars

C17_Witness ==
    /\ Has("save") /\ edits = 0 /\ Len(base) = 2
    /\ Flips(2) /\ ~Flips(1)
    /\ file.items # base /\ SameFrame(file.items, base)
    /\ Len(base[2].matches) = 4


\* the step ends a cycle with update_state returning Ok
CycleCompletes == pc = "fetching" /\ pc' # "fetching" /\ outcome' \in {"NoChange", "Updated"}

\* C18: when a cycle detects a change and the write of the file fails, no
\* "State Changed" is sent in that cycle, the cycle ends as a poll error and
\* the flip is not kept as the baseline: the next cycle that completes with
\* the same statuses computed detects the same flips, saves and notifies.
C18_FailedWriteRedetected ==
    /\ [](Has("save_err") =>
            /\ SomeFlip /\ AllFetched
            /\ ~Has("send") /\ ~Has("save")
            /\ outcome = "Err" /\ pc = "tick"
            /\ LastEv = Ev("save_err", 0))
    /\ [][(Has("save_err")' /\ ~Has("save_err")) =>
            (lastMsg' = lastMsg /\ file' \in {file, BadFile})]_vars
    /\ [](unsaved # <<>> /\ pc # "sending" =>
            /\ file.ok /\ Len(unsaved) = Len(file.items)
            /\ \E k \in 1..Len(unsaved) : unsaved[k] # file.items[k].in_stock
            /\ pc = "fetching" => base = file.items)
    /\ [][(unsaved # <<>> /\ CycleCompletes /\ computed' = unsaved) =>
            /\ outcome' = "Updated" /\ pc' = "sending"
            /\ Has("save")' /\ Has("send")'
            /\ file' = GoodFile(states')
            /\ \A k \in 1..Len(unsaved) : states'[k].in_stock = unsaved[k]
            /\ lastMsg' = send_inventory_state("State Changed", states')]_vars

C18_Witness ==
    /\ unsaved # <<>> /\ pc = "sending" /\ Len(base) = 2
    /\ computed = unsaved /\ Flips(2)
    /\ Has("save") /\ Has("send") /\ ~Has("save_err")
    /\ file = GoodFile(states)


\* the program wrote the file, the send of that cycle returned, and the file
\* is still as written
Settled == persisted \in {"delivered", "undelivered"}

\* C19: a "State Changed" send is attempted at most once per saved flip: once
\* a cycle has saved the new collection, a later cycle that computes the same
\* statuses reports no change and sends nothing, also when the send of the
\* saving cycle failed; a later send needs a status to flip again.
C19_OneSendPerSavedFlip ==
    /\ [](Count("send") <= 1 /\ (Has("send") => (Has("save") /\ SomeFlip)))
    /\ [](Settled =>
            /\ file.ok
            /\ lastMsg = send_inventory_state("State Changed", file.items))
    /\ [][(Settled /\ CycleCompletes
             /\ \A k \in 1..Len(computed') : computed'[k] = file.items[k].in_stock) =>
            /\ outcome' = "NoChange" /\ pc' = "tick"
            /\ lastMsg' = lastMsg /\ file' = file
            /\ ~Has("send")' /\ persisted' = persisted]_vars
    /\ [][(Settled /\ lastMsg' # lastMsg) =>
            /\ Has("save")' /\ Has("send")' /\ SomeFlip'
            /\ \E k \in 1..Len(computed') : computed'[k] # file.items[k].in_stock]_vars

C19_Witness ==
    /\ persisted = "undelivered" /\ pc = "tick" /\ outcome = "NoChange"
    /\ Len(base) = 2 /\ AllFetched /\ NoFlip
    /\ base[2].in_stock
    /\ lastMsg = send_inventory_state("State Changed", base)


\* C20: each cycle takes its baseline from the file as read at its start
\* and, on change, overwrites the file with that snapshot plus the updated
\* flags: an edit made between two cycles is the baseline of the next cycle,
\* an edit made between a cycle's read and its write is lost to the save.
C20_SnapshotOverwrites ==
    /\ [][(pc = "tick" /\ pc' = "fetching") =>
            (base' = file.items /\ file' = file /\ ~dirty')]_vars
    /\ [][(edits' # edits /\ pc = "tick") =>
            (base' = base /\ states' = states /\ pc' = "tick")]_vars
    /\ [][(Has("save")' /\ ~Has("save")) =>
            /\ file' = GoodFile(states')
            /\ SameFrame(states', base)
            /\ \A k \in 1..Len(base) : states'[k].in_stock = computed'[k]]_vars
    /\ [](dirty /\ Has("save") =>
            (file = GoodFile(states) /\ SameFrame(file.items, base)))

C20_Witness ==
    /\ dirty /\ edits = 1 /\ Has("save") /\ pc = "sending"
    /\ Len(base) = 2 /\ Flips(2) /\ ~Flips(1)
    /\ file = GoodFile(states)
    /\ file.items = [base EXCEPT ![2].in_stock = ~base[2].in_stock]

====
